---- MODULE Spec2Model ----
(***************************************************************************)
(* Broadcastify Calls integration: the fetch client                        *)
(* (BroadcastifyApiClient.async_get_latest_calls) and the poll-and-dedupe  *)
(* loop (async_update_data, driven by the DataUpdateCoordinator).          *)
(*                                                                         *)
(* Spec      : the poll loop.  async_update_data is run against every      *)
(*             outcome the awaited call on line 100 can have by its        *)
(*             signature: a list of validated records, or an exception.    *)
(* SpecLive  : Spec with the fairness the 15 s request timeout gives.      *)
(* SpecFetch : async_get_latest_calls run against HTTP responses.          *)
(* SpecEntities : the coordinator refreshing and notifying the sensor and  *)
(*             the media player, with the play tasks the player schedules. *)
(*                                                                         *)
(* Python strings that are compared with < (the timestamps) are sequences  *)
(* of character codes, compared lexicographically as str is.               *)
(***************************************************************************)
EXTENDS Integers, Sequences, FiniteSets, TLC

VARIABLES
    last_call_id,       \* client._last_call_id
    state,              \* the loop: "IDLE" or "FETCHING"
    outcome,            \* how the latest cycle ended
    error,              \* the exception type a failed cycle raised
    published,          \* what the latest cycle returned to the coordinator
    calls,              \* the batch the latest cycle fetched (as returned)
    prev_last_call_id,  \* client._last_call_id when the latest cycle began
    delivered,          \* call_ids published by the cycles before the latest
    in_flight,          \* async_update_data coroutines that have not ended
    response,           \* the HTTP exchange async_get_latest_calls sees
    fetch_result,       \* what async_get_latest_calls did with it
    coordinator_data,   \* coordinator.data
    last_update_success, \* coordinator.last_update_success
    sensor_added,       \* BroadcastifyCallSensor.async_added_to_hass has run
    sensor_state,       \* BroadcastifyCallSensor._state
    sensor_attributes,  \* BroadcastifyCallSensor._attributes
    player_added,       \* BroadcastifyCallMediaPlayer.async_added_to_hass has run
    player_state,       \* BroadcastifyCallMediaPlayer._state
    media_content_id,   \* BroadcastifyCallMediaPlayer._media_content_id
    media_title,        \* BroadcastifyCallMediaPlayer._media_title
    play_tasks,         \* async_play_media tasks created and not yet run
    eager_start,        \* hass.async_create_task runs a coroutine at once
    stopped             \* async_media_stop ran and no batch was published since

loopVars == <<last_call_id, state, outcome, error, published, calls,
              prev_last_call_id, delivered, in_flight>>

fetchVars == <<response, fetch_result>>

entityVars == <<coordinator_data, last_update_success, sensor_added, sensor_state,
                sensor_attributes, player_added, player_state,
                media_content_id, media_title, play_tasks, eager_start,
                stopped>>

vars == <<loopVars, fetchVars, entityVars>>

----------------------------------------------------------------------------
(* Bounds *)

MaxBatch == 3

MaxCalls == 2

MaxTasks == 2

MaxEntityBatch == 2

----------------------------------------------------------------------------
(* Values *)

\* Python's None (the unset cursor, self._last_call_id = None)
None == "<None>"

\* s[-1]
Last(s) == s[Len(s)]

\* bool(x) of a str-or-None value, as tested by `if client._last_call_id:`
Truthy(x) == x /= None /\ x /= ""

\* the five keys the validation on line 67 requires
RequiredKeys == {"call_id", "timestamp", "audio_url", "talkgroup", "description"}

\* a < b on Python str, both given as sequences of character codes
RECURSIVE StrLess(_, _)
StrLess(a, b) ==
    IF b = <<>> THEN FALSE
    ELSE IF a = <<>> THEN TRUE
    ELSE IF Head(a) /= Head(b) THEN Head(a) < Head(b)
    ELSE StrLess(Tail(a), Tail(b))

\* one element of the API's calls list carrying all five keys
CallRecord(id, ts, url) ==
    [audio_url |-> url, call_id |-> id, timestamp |-> ts,
     talkgroup |-> "tg", description |-> "d"]

\* an element that also carries the optional feed_id
CallRecordOfFeed(id, ts, url, feed) ==
    [audio_url |-> url, call_id |-> id, timestamp |-> ts,
     talkgroup |-> "tg", description |-> "d", feed_id |-> feed]

\* the calls the API can return: call_id is unique per call; the timestamps
\* are "1", "2", "10" and "2"; validation accepts the empty call_id
ApiCalls ==
    { CallRecord("C1", <<1>>, "u1"),
      CallRecord("C2", <<2>>, "u2"),
      CallRecordOfFeed("C3", <<1, 0>>, "u3", "f1"),
      CallRecord("", <<2>>, "u4") }

CallIds == { c.call_id : c \in ApiCalls }

\* the timestamp of the call a call_id names
TimestampOf(id) == (CHOOSE c \in ApiCalls : c.call_id = id).timestamp

\* sequences of distinct elements of S, of length at most n
DistinctSeqs(S, n) ==
    { s \in UNION { [1..k -> S] : k \in 0..n } :
        \A i, j \in DOMAIN s : i /= j => s[i] /= s[j] }

\* what client.async_get_latest_calls() can return: validated records, in
\* the order the API gave them
Batches == DistinctSeqs(ApiCalls, MaxBatch)

Ids(s) == { s[i].call_id : i \in DOMAIN s }

----------------------------------------------------------------------------
(* async_get_latest_calls *)

\* whether the name json is bound in the module: lines 2-12 import asyncio,
\* logging, timedelta, aiohttp, voluptuous and homeassistant names only
JsonImported == FALSE

\* the dict call without key k
WithoutKey(call, k) == [x \in (DOMAIN call) \ {k} |-> call[x]]

\* elements the API can put in the calls list: complete ones and ones that
\* lack one of the required keys
ApiElements ==
    LET some == { c \in ApiCalls : c.call_id \in {"C1", "C2"} }
    IN  some \cup { WithoutKey(c, k) : c \in some, k \in RequiredKeys }

\* parsed JSON bodies: a dict without "calls", a dict whose "calls" is not a
\* list, and dicts whose "calls" is a list of elements
JsonBodies ==
    { [has_calls |-> FALSE, is_list |-> FALSE, items |-> <<>>],
      [has_calls |-> TRUE, is_list |-> FALSE, items |-> <<>>] }
    \cup { [has_calls |-> TRUE, is_list |-> TRUE, items |-> s] :
             s \in UNION { [1..k -> ApiElements] : k \in 0..MaxCalls } }

NoBody == [has_calls |-> FALSE, is_list |-> FALSE, items |-> <<>>]

\* what one session.get can meet: a connection error, a timeout, an HTTP
\* error status, a 2xx body that is not JSON, or a 2xx JSON body
Responses ==
    { [transport |-> t, status |-> 0, parseable |-> FALSE, data |-> NoBody] :
        t \in {"client_error", "timeout"} }
    \cup { [transport |-> "ok", status |-> st, parseable |-> FALSE, data |-> NoBody] :
        st \in {200, 404, 500} }
    \cup { [transport |-> "ok", status |-> 200, parseable |-> TRUE, data |-> d] :
        d \in JsonBodies }

NoResponse ==
    [transport |-> "none", status |-> 0, parseable |-> FALSE, data |-> NoBody]

Returned(list) == [kind |-> "return", value |-> list, exc |-> None]

Raised(e) == [kind |-> "raise", value |-> <<>>, exc |-> e]

NotRun == [kind |-> "none", value |-> <<>>, exc |-> None]

\* line 67: all(k in call for k in [...])
IsValidCall(call) == RequiredKeys \subseteq DOMAIN call

\* lines 63-74: the validated elements, or [] for an unexpected structure
ValidatedCalls(data) ==
    IF data.has_calls /\ data.is_list
    THEN SelectSeq(data.items, IsValidCall)
    ELSE <<>>

\* lines 57-74, the body of the try: what it returns or raises
TryBody(resp) ==
    IF resp.transport = "client_error" THEN Raised("ClientError")
    ELSE IF resp.transport = "timeout" THEN Raised("TimeoutError")
    ELSE IF resp.status >= 400 THEN Raised("ClientError")
    ELSE IF ~resp.parseable THEN Raised("JSONDecodeError")
    ELSE IF ~JsonImported THEN Raised("NameError")
    ELSE Returned(ValidatedCalls(resp.data))

\* lines 76-84, the except clauses in order: the exception that leaves the
\* function when e was raised in the try.  Matching the third clause
\* evaluates json.JSONDecodeError.
ExceptClauses(e) ==
    IF e = "ClientError" THEN "UpdateFailed"
    ELSE IF e = "TimeoutError" THEN "UpdateFailed"
    ELSE IF ~JsonImported THEN "NameError"
    ELSE "UpdateFailed"

\* async_get_latest_calls on one response
AsyncGetLatestCalls(resp) ==
    IF TryBody(resp).kind = "raise"
    THEN Raised(ExceptClauses(TryBody(resp).exc))
    ELSE TryBody(resp)

----------------------------------------------------------------------------
(* async_update_data *)

\* list.sort inserting one more element: stable, so r goes behind every
\* element whose key is not greater
RECURSIVE InsertByTimestamp(_, _)
InsertByTimestamp(s, r) ==
    IF s = <<>> THEN <<r>>
    ELSE IF StrLess(r.timestamp, Last(s).timestamp)
         THEN Append(InsertByTimestamp(SubSeq(s, 1, Len(s) - 1), r), Last(s))
         ELSE Append(s, r)

\* the batch left in the order the API returned it (the sort forgotten)
LeftInApiOrder(s) == s

\* calls.sort(key=lambda x: x.get("timestamp", ""))
RECURSIVE SortByTimestamp(_)
SortByTimestamp(s) ==
    IF s = <<>> THEN <<>>
    ELSE InsertByTimestamp(SortByTimestamp(SubSeq(s, 1, Len(s) - 1)), Last(s))

\* lines 108-111: the filter on _last_call_id, applied only to a truthy cursor
FilterProcessed(sorted, cursor) ==
    IF Truthy(cursor)
    THEN SelectSeq(sorted, LAMBDA c : c.call_id /= cursor)
    ELSE sorted

\* new_calls as computed on lines 101-111 ([] when nothing was fetched)
NewCalls(batch, cursor) ==
    IF batch /= <<>> THEN FilterProcessed(SortByTimestamp(batch), cursor)
    ELSE <<>>

\* the cursor cleared by a cycle that has nothing to publish
ClearedWhenNothingNew(batch, cursor) ==
    IF NewCalls(batch, cursor) /= <<>>
    THEN Last(NewCalls(batch, cursor)).call_id
    ELSE None

\* the cursor left as it was by a cycle that publishes
CursorNotMoved(batch, cursor) == cursor

\* client._last_call_id after the cycle (lines 113-115)
NewLastCallId(batch, cursor) ==
    IF NewCalls(batch, cursor) /= <<>>
    THEN Last(NewCalls(batch, cursor)).call_id
    ELSE cursor

----------------------------------------------------------------------------
(* The entities as constructed *)

\* BroadcastifyCallSensor.__init__, BroadcastifyCallMediaPlayer.__init__, and
\* a coordinator that has not refreshed yet
InitEntities ==
    /\ coordinator_data = <<>>
    /\ last_update_success = TRUE
    /\ sensor_added = FALSE
    /\ sensor_state = None
    /\ sensor_attributes = [k \in {} |-> "<None>"]
    /\ player_added = FALSE
    /\ player_state = None
    /\ media_content_id = None
    /\ media_title = None
    /\ play_tasks = <<>>
    /\ stopped = FALSE

----------------------------------------------------------------------------
(* The sensor and the media player *)

\* dict.get(k): the value under k, None when the key is absent
Get(call, k) == IF k \in DOMAIN call THEN call[k] ELSE None

\* the empty dict of self._attributes = {}
EmptyDict == [k \in {} |-> None]

\* BroadcastifyCallSensor._handle_coordinator_update on coordinator.data = d,
\* for a sensor s = [state, attributes]: the first record instead of the last
SensorHandlesFirst(d, s) ==
    IF d /= <<>>
    THEN [state |-> Get(d[1], "call_id"),
          attributes |->
              [timestamp |-> Get(d[1], "timestamp"),
               talkgroup |-> Get(d[1], "talkgroup"),
               description |-> Get(d[1], "description"),
               audio_url |-> Get(d[1], "audio_url"),
               feed_id |-> Get(d[1], "feed_id")]]
    ELSE s

\* BroadcastifyCallSensor._handle_coordinator_update on coordinator.data = d,
\* for a sensor s = [state, attributes]
SensorHandle(d, s) ==
    IF d /= <<>>
    THEN [state |-> Get(Last(d), "call_id"),
          attributes |->
              [timestamp |-> Get(Last(d), "timestamp"),
               talkgroup |-> Get(Last(d), "talkgroup"),
               description |-> Get(Last(d), "description"),
               audio_url |-> Get(Last(d), "audio_url"),
               feed_id |-> Get(Last(d), "feed_id")]]
    ELSE s

\* the coordinator updating its listeners: the sensor's handler is registered
\* by CoordinatorEntity.async_added_to_hass and again on line 71
SensorNotified(d, s) == SensorHandle(d, SensorHandle(d, s))

\* media_id.split('/')[-1]; the URLs of ApiCalls hold no '/'
LastSegment(media_id) == media_id

\* f"Broadcastify Call ({media_id.split('/')[-1]})"
TitleOf(media_id) == <<"Broadcastify Call (", LastSegment(media_id), ")">>

\* async_play_media on a player p = [state, media_content_id, media_title]
AsyncPlayMedia(media_type, media_id, p) ==
    IF media_type = "music"
    THEN [state |-> "playing", media_content_id |-> media_id,
          media_title |-> TitleOf(media_id)]
    ELSE p

\* async_media_stop
AsyncMediaStop == [state |-> "idle", media_content_id |-> None, media_title |-> None]

\* BroadcastifyCallMediaPlayer._handle_coordinator_update on coordinator.data
\* = d, for pt = [player, tasks].  hass.async_create_task queues the
\* coroutine, or, where the core creates eager tasks, runs it at once.
PlayerHandle(d, pt, eager) ==
    IF /\ d /= <<>>
       /\ Truthy(Get(Last(d), "audio_url"))
       /\ Get(Last(d), "audio_url") /= pt.player.media_content_id
    THEN IF eager
         THEN [player |-> AsyncPlayMedia("music", Get(Last(d), "audio_url"), pt.player),
               tasks |-> pt.tasks]
         ELSE [player |-> pt.player,
               tasks |-> Append(pt.tasks, Get(Last(d), "audio_url"))]
    ELSE pt

\* the coordinator updating its listeners: the player's handler is registered
\* by CoordinatorEntity.async_added_to_hass and again on line 137
PlayerNotified(d, pt, eager) == PlayerHandle(d, PlayerHandle(d, pt, eager), eager)

Sensor == [state |-> sensor_state, attributes |-> sensor_attributes]

Player == [state |-> player_state, media_content_id |-> media_content_id,
           media_title |-> media_title]

PlayerAndTasks == [player |-> Player, tasks |-> play_tasks]

\* the media types and ids a play_media service call can carry
MediaTypes == {"music", "video"}

MediaIds == { c.audio_url : c \in ApiCalls }

----------------------------------------------------------------------------
(* The poll loop *)

Init ==
    /\ last_call_id = None
    /\ state = "IDLE"
    /\ outcome = "none"
    /\ error = None
    /\ published = <<>>
    /\ calls = <<>>
    /\ prev_last_call_id = None
    /\ delivered = {}
    /\ in_flight = 0
    /\ response = NoResponse
    /\ fetch_result = NotRun
    /\ InitEntities
    /\ eager_start = FALSE

\* a timer that fires every update_interval whether or not the previous
\* refresh has ended
TickOnEveryInterval ==
    /\ in_flight < 2
    /\ state' = "FETCHING"
    /\ outcome' = "pending"
    /\ error' = None
    /\ prev_last_call_id' = last_call_id
    /\ delivered' = delivered \cup Ids(published)
    /\ in_flight' = in_flight + 1
    /\ UNCHANGED <<last_call_id, published, calls>>
    /\ UNCHANGED <<fetchVars, entityVars>>

\* the coordinator's timer fires and starts async_update_data; the
\* coordinator arms the timer again only when a refresh has ended
Tick ==
    /\ state = "IDLE"
    /\ state' = "FETCHING"
    /\ outcome' = "pending"
    /\ error' = None
    /\ prev_last_call_id' = last_call_id
    /\ delivered' = delivered \cup Ids(published)
    /\ in_flight' = in_flight + 1
    /\ UNCHANGED <<last_call_id, published, calls>>
    /\ UNCHANGED <<fetchVars, entityVars>>

\* the awaited fetch returns batch; lines 101-121 run to the return
FetchReturns(batch) ==
    /\ state = "FETCHING"
    /\ calls' = batch
    /\ published' = NewCalls(batch, last_call_id)
    /\ last_call_id' = NewLastCallId(batch, last_call_id)
    /\ outcome' = "returned"
    /\ state' = "IDLE"
    /\ in_flight' = in_flight - 1
    /\ UNCHANGED <<error, prev_last_call_id, delivered>>
    /\ UNCHANGED <<fetchVars, entityVars>>

\* a failed cycle that also forgets the cursor
FetchRaisesAndForgets(exc) ==
    /\ state = "FETCHING"
    /\ calls' = <<>>
    /\ published' = <<>>
    /\ outcome' = "raised"
    /\ error' = exc
    /\ state' = "IDLE"
    /\ last_call_id' = None
    /\ in_flight' = in_flight - 1
    /\ UNCHANGED <<prev_last_call_id, delivered>>
    /\ UNCHANGED <<fetchVars, entityVars>>

\* the awaited fetch raises exc; it leaves async_update_data on line 100
FetchRaises(exc) ==
    /\ state = "FETCHING"
    /\ calls' = <<>>
    /\ published' = <<>>
    /\ outcome' = "raised"
    /\ error' = exc
    /\ state' = "IDLE"
    /\ in_flight' = in_flight - 1
    /\ UNCHANGED <<last_call_id, prev_last_call_id, delivered>>
    /\ UNCHANGED <<fetchVars, entityVars>>

Next ==
    \/ Tick
    \/ \E batch \in Batches : FetchReturns(batch)
    \/ \E exc \in {"UpdateFailed", "NameError"} : FetchRaises(exc)

Spec == Init /\ [][Next]_vars

\* the fetch in flight ends: session.get carries timeout=15 (line 58), and
\* every path of async_get_latest_calls returns or raises
FetchEnds ==
    \/ \E batch \in Batches : FetchReturns(batch)
    \/ \E exc \in {"UpdateFailed", "NameError"} : FetchRaises(exc)

SpecLive == Spec /\ WF_vars(FetchEnds)

----------------------------------------------------------------------------
(* Properties of the poll loop *)

\* the position of record r in batch s
IndexOf(s, r) == CHOOSE i \in DOMAIN s : s[i] = r

\* s is in ascending order of timestamp
Ascending(s) ==
    \A i, j \in DOMAIN s : i < j => ~StrLess(s[j].timestamp, s[i].timestamp)

\* p is batch sorted ascending by timestamp (equal timestamps in batch
\* order) with every record whose call_id is L removed
SortedWithout(p, batch, L) ==
    /\ Len(p) = Cardinality({ i \in DOMAIN batch : batch[i].call_id /= L })
    /\ \A i \in DOMAIN batch :
         batch[i].call_id /= L => \E j \in DOMAIN p : p[j] = batch[i]
    /\ Ascending(p)
    /\ \A i, j \in DOMAIN p :
         (i < j /\ p[i].timestamp = p[j].timestamp)
            => IndexOf(batch, p[i]) < IndexOf(batch, p[j])

\* the record an ascending stable sort of batch puts last
ChronologicallyLast(batch) ==
    batch[CHOOSE i \in DOMAIN batch :
            \A j \in DOMAIN batch :
               /\ ~StrLess(batch[i].timestamp, batch[j].timestamp)
               /\ (j > i => StrLess(batch[j].timestamp, batch[i].timestamp))]

\* C1: a record published by one cycle is never published again by a later
\* cycle: no call_id of the latest cycle's result was published before.
C1_NeverPublishedAgain ==
    outcome = "returned" =>
        \A i \in DOMAIN published : published[i].call_id \notin delivered

\* C2: for a non-empty batch and a set cursor L the cycle publishes exactly
\* the batch sorted ascending by timestamp without the records whose call_id
\* is L, and a non-empty result moves the cursor to its last call_id.
C2_DedupExactness ==
    (outcome = "returned" /\ calls /= <<>> /\ prev_last_call_id /= None) =>
        /\ SortedWithout(published, calls, prev_last_call_id)
        /\ (published /= <<>> => last_call_id = Last(published).call_id)

\* C3: after a cycle that published at least one record the cursor is the
\* call_id of the chronologically-last record of that cycle's fetched batch.
C3_CursorIsLastOfBatch ==
    (outcome = "returned" /\ published /= <<>>) =>
        last_call_id = ChronologicallyLast(calls).call_id

\* C4: the cursor is never rolled back: a cycle that changes it names a
\* record whose timestamp is not earlier than that of the record named before.
C4_CursorNeverRolledBack ==
    (outcome = "returned" /\ prev_last_call_id /= None
                          /\ last_call_id /= prev_last_call_id) =>
        ~StrLess(TimestampOf(last_call_id), TimestampOf(prev_last_call_id))

C6_EmptyBatchIdempotence ==
    (outcome = "returned" /\ calls = <<>>) =>
        /\ published = <<>>
        /\ last_call_id = prev_last_call_id

C6_Witness ==
    /\ outcome = "returned"
    /\ calls = <<>>
    /\ prev_last_call_id = "C3"
    /\ published = <<>>

\* C7: when the cursor is set and every record of the fetched batch carries
\* the cursor's call_id, the cycle publishes the empty result and does not
\* change the cursor.
C7_NoNewData ==
    (/\ outcome = "returned"
     /\ calls /= <<>>
     /\ prev_last_call_id /= None
     /\ \A i \in DOMAIN calls : calls[i].call_id = prev_last_call_id) =>
        /\ published = <<>>
        /\ last_call_id = prev_last_call_id

\* C9: every published sequence is in ascending (lexicographic) order of
\* timestamp whatever order the API used, so that its last record carries
\* the greatest timestamp of the published records.
C9_PublishedAscending ==
    outcome = "returned" =>
        /\ Ascending(published)
        /\ \A i \in DOMAIN published :
             ~StrLess(Last(published).timestamp, published[i].timestamp)

\* the API returned "2" before "10" before "1"; all three are published
C9_Witness ==
    /\ outcome = "returned"
    /\ Len(calls) = 3
    /\ calls[1].call_id = "C2" /\ calls[2].call_id = "C3" /\ calls[3].call_id = "C1"
    /\ Len(published) = 3
    /\ published[1].call_id = "C1" /\ published[3].call_id = "C2"

\* C16: whatever call_id the cursor took in a publishing cycle (the empty
\* string included), the next cycle publishes no record whose call_id is the
\* cursor value held when that cycle began.
C16_CursorRecordNotPublished ==
    (outcome = "returned" /\ prev_last_call_id /= None) =>
        \A i \in DOMAIN published :
            published[i].call_id /= prev_last_call_id

----------------------------------------------------------------------------
(* The fetch client on its own *)

InitFetch ==
    /\ last_call_id = None
    /\ state = "IDLE"
    /\ outcome = "none"
    /\ error = None
    /\ published = <<>>
    /\ calls = <<>>
    /\ prev_last_call_id = None
    /\ delivered = {}
    /\ in_flight = 0
    /\ response = NoResponse
    /\ fetch_result = NotRun
    /\ InitEntities
    /\ eager_start = FALSE

\* session.get is issued and meets resp
SendRequest(resp) ==
    /\ response = NoResponse
    /\ response' = resp
    /\ fetch_result' = NotRun
    /\ UNCHANGED <<loopVars, entityVars>>

\* async_get_latest_calls runs to its return or raise
FetchCompletes ==
    /\ response /= NoResponse
    /\ fetch_result = NotRun
    /\ fetch_result' = AsyncGetLatestCalls(response)
    /\ UNCHANGED response
    /\ UNCHANGED <<loopVars, entityVars>>

\* the caller takes the result; the next call can be made
NextCall ==
    /\ fetch_result /= NotRun
    /\ response' = NoResponse
    /\ fetch_result' = NotRun
    /\ UNCHANGED <<loopVars, entityVars>>

NextFetch ==
    \/ \E resp \in Responses : SendRequest(resp)
    \/ FetchCompletes
    \/ NextCall

SpecFetch == InitFetch /\ [][NextFetch]_vars

----------------------------------------------------------------------------
(* Properties of the fetch client *)

\* C8: for a 2xx response whose body has a calls list the fetch returns
\* exactly the elements carrying all five keys, in their original order; an
\* element lacking one is dropped alone and does not fail the batch.
C8_ValidationCompleteness ==
    (/\ fetch_result /= NotRun
     /\ response.transport = "ok" /\ response.status = 200
     /\ response.parseable
     /\ response.data.has_calls /\ response.data.is_list) =>
        /\ fetch_result.kind = "return"
        /\ fetch_result.value =
             SelectSeq(response.data.items,
                       LAMBDA c : \A k \in RequiredKeys : k \in DOMAIN c)

\* C10: every failure of a fetch leaves async_get_latest_calls as
\* UpdateFailed and as no other exception type.
C10_SingleFailureType ==
    fetch_result.kind = "raise" => fetch_result.exc = "UpdateFailed"

\* C11: a 2xx response with a parseable body is never a failure: the fetch
\* returns a list, the empty one when the body has no calls list and the
\* validated records otherwise.
C11_ParseableBodyReturnsList ==
    (/\ fetch_result /= NotRun
     /\ response.transport = "ok" /\ response.status = 200
     /\ response.parseable) =>
        /\ fetch_result.kind = "return"
        /\ (~(response.data.has_calls /\ response.data.is_list)
               => fetch_result.value = <<>>)
        /\ \A i \in DOMAIN fetch_result.value :
               RequiredKeys \subseteq DOMAIN fetch_result.value[i]

----------------------------------------------------------------------------
(* The coordinator with its entities *)

\* history variables of Spec that the entities do not read
historyVars == <<outcome, error, published, calls, prev_last_call_id, delivered>>

\* async_setup is awaiting the first refresh (line 132); the platforms are
\* set up after it (line 140).  Whether hass.async_create_task starts a
\* coroutine at once or queues it is fixed by the core the integration runs in.
InitWithEntities ==
    /\ last_call_id = None
    /\ state = "FETCHING"
    /\ outcome = "none"
    /\ error = None
    /\ published = <<>>
    /\ calls = <<>>
    /\ prev_last_call_id = None
    /\ delivered = {}
    /\ in_flight = 1
    /\ response = NoResponse
    /\ fetch_result = NotRun
    /\ InitEntities
    /\ eager_start \in BOOLEAN

\* the batches fetched while the entities are watched
EntityBatches == DistinctSeqs(ApiCalls, MaxEntityBatch)

\* the sensor and the player after the coordinator has updated its listeners
NotifySensor(d) ==
    /\ sensor_state' = IF sensor_added THEN SensorNotified(d, Sensor).state
                       ELSE sensor_state
    /\ sensor_attributes' = IF sensor_added THEN SensorNotified(d, Sensor).attributes
                            ELSE sensor_attributes

NotifyPlayer(d) ==
    LET pt == IF player_added THEN PlayerNotified(d, PlayerAndTasks, eager_start)
              ELSE PlayerAndTasks
    IN  /\ Len(pt.tasks) <= MaxTasks
        /\ player_state' = pt.player.state
        /\ media_content_id' = pt.player.media_content_id
        /\ media_title' = pt.player.media_title
        /\ play_tasks' = pt.tasks

\* the coordinator's timer fires; it is armed while a listener is registered
RefreshTick ==
    /\ state = "IDLE"
    /\ sensor_added \/ player_added
    /\ state' = "FETCHING"
    /\ in_flight' = in_flight + 1
    /\ UNCHANGED <<last_call_id, historyVars, fetchVars, entityVars>>

\* async_update_data returns: the cursor is set (line 115), the coordinator
\* stores the returned list and then updates its listeners
RefreshSucceeds(batch) ==
    /\ state = "FETCHING"
    /\ last_call_id' = NewLastCallId(batch, last_call_id)
    /\ coordinator_data' = NewCalls(batch, last_call_id)
    /\ last_update_success' = TRUE
    /\ NotifySensor(NewCalls(batch, last_call_id))
    /\ NotifyPlayer(NewCalls(batch, last_call_id))
    /\ stopped' = (stopped /\ NewCalls(batch, last_call_id) = <<>>)
    /\ state' = "IDLE"
    /\ in_flight' = in_flight - 1
    /\ UNCHANGED <<historyVars, fetchVars, sensor_added, player_added,
                   eager_start>>

\* async_update_data raises: coordinator.data keeps the list of the last
\* successful refresh, and the listeners are updated when this is the first
\* failure after a success
RefreshFails ==
    /\ state = "FETCHING"
    /\ last_update_success' = FALSE
    /\ IF last_update_success
       THEN /\ NotifySensor(coordinator_data)
            /\ NotifyPlayer(coordinator_data)
       ELSE UNCHANGED <<sensor_state, sensor_attributes, player_state,
                        media_content_id, media_title, play_tasks>>
    /\ state' = "IDLE"
    /\ in_flight' = in_flight - 1
    /\ UNCHANGED <<last_call_id, historyVars, fetchVars, coordinator_data,
                   sensor_added, player_added, eager_start, stopped>>

\* BroadcastifyCallSensor.async_added_to_hass: the listener is registered and
\* the handler is called once directly
AddSensor ==
    /\ ~sensor_added
    /\ state = "IDLE"
    /\ last_update_success \/ player_added
    /\ sensor_added' = TRUE
    /\ sensor_state' = SensorHandle(coordinator_data, Sensor).state
    /\ sensor_attributes' = SensorHandle(coordinator_data, Sensor).attributes
    /\ UNCHANGED <<loopVars, fetchVars, coordinator_data, last_update_success,
                   player_added, player_state, media_content_id, media_title,
                   play_tasks, eager_start, stopped>>

\* BroadcastifyCallMediaPlayer.async_added_to_hass: the listener is
\* registered and the handler is called once directly
AddMediaPlayer ==
    /\ ~player_added
    /\ state = "IDLE"
    /\ last_update_success \/ sensor_added
    /\ player_added' = TRUE
    /\ LET pt == PlayerHandle(coordinator_data, PlayerAndTasks, eager_start)
       IN  /\ player_state' = pt.player.state
           /\ media_content_id' = pt.player.media_content_id
           /\ media_title' = pt.player.media_title
           /\ play_tasks' = pt.tasks
    /\ UNCHANGED <<loopVars, fetchVars, coordinator_data, last_update_success,
                   sensor_added, sensor_state, sensor_attributes, eager_start,
                   stopped>>

\* the event loop runs the oldest async_play_media task the handler created
RunPlayTask ==
    /\ play_tasks /= <<>>
    /\ LET p == AsyncPlayMedia("music", Head(play_tasks), Player)
       IN  /\ player_state' = p.state
           /\ media_content_id' = p.media_content_id
           /\ media_title' = p.media_title
    /\ play_tasks' = Tail(play_tasks)
    /\ UNCHANGED <<loopVars, fetchVars, coordinator_data, last_update_success,
                   sensor_added, sensor_state, sensor_attributes, player_added,
                   eager_start, stopped>>

\* a media_stop service call
MediaStop ==
    /\ player_added
    /\ player_state' = AsyncMediaStop.state
    /\ media_content_id' = AsyncMediaStop.media_content_id
    /\ media_title' = AsyncMediaStop.media_title
    /\ stopped' = TRUE
    /\ UNCHANGED <<loopVars, fetchVars, coordinator_data, last_update_success,
                   sensor_added, sensor_state, sensor_attributes, player_added,
                   play_tasks, eager_start>>

\* a play_media service call
PlayMedia(media_type, media_id) ==
    /\ player_added
    /\ LET p == AsyncPlayMedia(media_type, media_id, Player)
       IN  /\ player_state' = p.state
           /\ media_content_id' = p.media_content_id
           /\ media_title' = p.media_title
    /\ stopped' = (stopped /\ media_type /= "music")
    /\ UNCHANGED <<loopVars, fetchVars, coordinator_data, last_update_success,
                   sensor_added, sensor_state, sensor_attributes, player_added,
                   play_tasks, eager_start>>

NextEntities ==
    \/ RefreshTick
    \/ \E batch \in EntityBatches : RefreshSucceeds(batch)
    \/ RefreshFails
    \/ AddSensor
    \/ AddMediaPlayer
    \/ RunPlayTask
    \/ MediaStop
    \/ \E media_type \in MediaTypes, media_id \in MediaIds :
          PlayMedia(media_type, media_id)

SpecEntities == InitWithEntities /\ [][NextEntities]_vars

----------------------------------------------------------------------------
(* Properties of the entities *)

\* the coordinator updates its listeners in this step
ListenersUpdated ==
    /\ state = "FETCHING" /\ state' = "IDLE"
    /\ last_update_success \/ last_update_success'

\* C13: whenever an observer callback runs with a non-empty published batch
\* (the listeners are updated, or an entity is added and calls its handler),
\* client._last_call_id already is the call_id of that batch's last record.
C13_ObserversSeeMutatedCursor ==
    [][(\/ ListenersUpdated /\ (sensor_added \/ player_added)
        \/ sensor_added' /= sensor_added
        \/ player_added' /= player_added)
       => (coordinator_data' /= <<>>
             => last_call_id' = coordinator_data'[Len(coordinator_data')].call_id)]_vars

\* both entities handled a batch of two records
C13_Witness ==
    /\ sensor_added /\ player_added
    /\ Len(coordinator_data) = 2
    /\ last_call_id = "C2"
    /\ sensor_state = "C2"
    /\ play_tasks /= <<>>

\* C14: after the sensor handles a non-empty batch its state is the call_id
\* of the batch's last record, which carries the batch's greatest timestamp,
\* and its five attributes are that record's; after an empty batch its state
\* and attributes are unchanged.
C14_SensorSurfacesLastRecord ==
    [][(\/ ListenersUpdated /\ sensor_added
        \/ sensor_added' /= sensor_added)
       => IF coordinator_data' /= <<>>
          THEN LET r == coordinator_data'[Len(coordinator_data')]
               IN  /\ sensor_state' = r.call_id
                   /\ DOMAIN sensor_attributes' =
                        {"timestamp", "talkgroup", "description", "audio_url", "feed_id"}
                   /\ sensor_attributes'.timestamp = r.timestamp
                   /\ sensor_attributes'.talkgroup = r.talkgroup
                   /\ sensor_attributes'.description = r.description
                   /\ sensor_attributes'.audio_url = r.audio_url
                   /\ sensor_attributes'.feed_id =
                        (IF "feed_id" \in DOMAIN r THEN r.feed_id ELSE None)
                   /\ \A i \in DOMAIN coordinator_data' :
                        ~StrLess(r.timestamp, coordinator_data'[i].timestamp)
          ELSE UNCHANGED <<sensor_state, sensor_attributes>>]_vars

\* the sensor shows C3 of feed f1, out of a batch the API returned as C3, C1
C14_Witness ==
    /\ sensor_added
    /\ Len(coordinator_data) = 2
    /\ coordinator_data[1].call_id = "C1"
    /\ sensor_state = "C3"
    /\ sensor_attributes.feed_id = "f1"
    /\ sensor_attributes.audio_url = "u3"

\* the sensor keeps C3 while the latest refresh published nothing
C14_WitnessEmpty ==
    /\ sensor_added
    /\ coordinator_data = <<>>
    /\ sensor_state = "C3"

\* C15: playback is started only for a new audio URL: no play task the
\* handler created starts playback of the audio_url that is already playing
\* as media_content_id, so that one published batch starts playback of its
\* last record at most once.
C15_PlaysOnlyNewUrl ==
    [][/\ (play_tasks /= <<>> /\ play_tasks' = Tail(play_tasks))
          => ~(player_state = "playing" /\ Head(play_tasks) = media_content_id)
       /\ ListenersUpdated => Len(play_tasks') <= Len(play_tasks) + 1]_vars

\* C17: after async_media_stop the player is idle with media_content_id and
\* media_title cleared and stays so until a cycle publishes a non-empty batch
\* (an empty or a failed cycle does not restart playback); and
\* async_play_media with a media type other than music changes nothing.
C17_StaysStopped ==
    /\ stopped =>
         /\ player_state = "idle"
         /\ media_content_id = None
         /\ media_title = None
    /\ \A media_id \in MediaIds :
         AsyncPlayMedia("video", media_id, Player) = Player

====
